---- MODULE Spec2Model ----
(***************************************************************************)
(* Model of konf-go's `set` command (src/cmd/set.go): indexing of the      *)
(* store (fetchKonfs), the interactive selector (selectContext), shell     *)
(* completion (completeSet), activation (setContext), the latest record    *)
(* (saveLatestKonf, selectLastKonf) and the fuzzy matcher (searchKonf).    *)
(*                                                                         *)
(* Strings are sequences of one-character strings, so that prefixes,       *)
(* concatenation, byte order and subsequences are computed, not assumed.   *)
(* A file's content is a sequence of lines (one-line strings).             *)
(***************************************************************************)
EXTENDS Integers, Sequences, FiniteSets, TLC

VARIABLES
  fs,        \* the one afero.Fs: path -> NoFile | Dir | File(data)
  last,      \* the most recent call: its operation, inputs and results
  recorded,  \* the identifier of the most recent saveLatestKonf that returned nil
  lastSet,   \* the identifier of the most recent `set` that returned nil
  query,     \* searchKonf: the search term
  item,      \* searchKonf: the tableOutput searched
  found      \* searchKonf: its result ("true", "false"), "unset" before the call

vars == <<fs, last, recorded, lastSet, query, item, found>>

---------------------------------------------------------------------------
(* Bounds *)

\* The store directory holds at most this many entries.
MaxFiles == 2
\* searchKonf: the longest search term tried.
MaxQuery == 3

---------------------------------------------------------------------------
(* Strings *)

\* No identifier yet.
None == <<"<none>">>

\* The byte of each character used, for Go's bytewise string order.
Code(c) ==
  CASE c = " " -> 32
    [] c = "-" -> 45
    [] c = "." -> 46
    [] c = "/" -> 47
    [] c = "_" -> 95
    [] c = "a" -> 97
    [] c = "b" -> 98
    [] c = "c" -> 99
    [] c = "h" -> 104
    [] c = "l" -> 108
    [] c = "m" -> 109
    [] c = "x" -> 120
    [] c = "y" -> 121
    [] c = "z" -> 122
    [] OTHER -> 127

\* Go's s < t on strings.
RECURSIVE StrLess(_, _)
StrLess(s, t) ==
  IF t = <<>> THEN FALSE
  ELSE IF s = <<>> THEN TRUE
  ELSE IF Code(s[1]) # Code(t[1]) THEN Code(s[1]) < Code(t[1])
  ELSE StrLess(Tail(s), Tail(t))

\* strings.HasPrefix
HasPrefix(s, p) == Len(s) >= Len(p) /\ SubSeq(s, 1, Len(p)) = p

HasSuffix(s, p) == Len(s) >= Len(p) /\ SubSeq(s, Len(s) - Len(p) + 1, Len(s)) = p

\* fmt.Sprint of a non-negative int: its decimal digits.
Digit(d) == CASE d = 0 -> "0" [] d = 1 -> "1" [] d = 2 -> "2" [] d = 3 -> "3"
              [] d = 4 -> "4" [] d = 5 -> "5" [] d = 6 -> "6" [] d = 7 -> "7"
              [] d = 8 -> "8" [] OTHER -> "9"

RECURSIVE Sprint(_)
Sprint(n) == IF n < 10 THEN <<Digit(n)>> ELSE Sprint(n \div 10) \o <<Digit(n % 10)>>

---------------------------------------------------------------------------
(* Paths and identifiers (package utils and config) *)

YamlExt == <<".", "y", "a", "m", "l">>

\* config.StoreDir()
StoreDir == [dir |-> "konf", base |-> <<"store">>]

\* config.LatestKonfFile()
LatestKonfFile == [dir |-> "konf", base |-> <<"latestkonf">>]

\* The empty path "".
NoPath == [dir |-> "", base |-> <<>>]

\* utils.StorePathForID(id): <store>/<id>.yaml
StorePathForID(id) == [dir |-> "konf/store", base |-> id \o YamlExt]

\* utils.ActivePathForID(id): <active>/<id>
ActivePathForID(id) == [dir |-> "konf/active", base |-> id]

\* utils.IDFromFileInfo(fi): the file's name without its extension
IDFromFileInfo(fi) ==
  IF HasSuffix(fi.name, YamlExt)
  THEN SubSeq(fi.name, 1, Len(fi.name) - Len(YamlExt))
  ELSE fi.name

\* utils.IDFromClusterAndContext(cluster, context): <context>_<cluster>
IDFromClusterAndContext(cluster, context) == context \o <<"_">> \o cluster

---------------------------------------------------------------------------
(* File contents *)

\* A kubeconfig is a sequence of lines: a context definition, a cluster
\* definition, or a line that is no YAML.
IsContextLine(l) == l \in {"context:a", "context:b"}
IsClusterLine(l) == l \in {"cluster:x", "cluster:y"}
LineName(l) ==
  CASE l = "context:a" -> <<"a">>
    [] l = "context:b" -> <<"b">>
    [] l = "cluster:x" -> <<"x">>
    [] l = "cluster:y" -> <<"y">>
    [] OTHER -> <<>>

DocAX      == <<"context:a", "cluster:x">>
DocBY      == <<"context:b", "cluster:y">>
DocInvalid == <<"{not yaml">>
DocEmpty   == <<>>
DocTwoCtx  == <<"context:a", "context:b", "cluster:x">>
DocTwoClu  == <<"context:a", "cluster:x", "cluster:y">>

Docs == {DocAX, DocBY, DocInvalid, DocEmpty, DocTwoCtx, DocTwoClu}

NoFile == [t |-> "none"]
Dir == [t |-> "dir"]
File(data) == [t |-> "file", data |-> data]

\* yaml.Unmarshal into a k8s.Config: an error for a document that is no YAML,
\* else the contexts and the clusters the document defines, in order.
Unmarshal(val) ==
  IF \E i \in 1..Len(val) : ~IsContextLine(val[i]) /\ ~IsClusterLine(val[i])
  THEN [err |-> TRUE, Contexts |-> <<>>, Clusters |-> <<>>]
  ELSE [err |-> FALSE,
        Contexts |-> SelectSeq(val, IsContextLine),
        Clusters |-> SelectSeq(val, IsClusterLine)]

---------------------------------------------------------------------------
(* The filesystem *)

NameAX     == <<"a", "_", "x">> \o YamlExt
NameBY     == <<"b", "_", "y">> \o YamlExt
NameHidden == <<".", "h">> \o YamlExt

\* The names an entry of the store directory may have.
Names == {NameAX, NameBY, NameHidden}

\* The path of the store directory's entry called name.
StoreEntry(name) == [dir |-> "konf/store", base |-> name]

\* The parent process ids of the shell sessions (os.Getppid()).
Ppids == {7, 42}

\* The identifiers a caller may pass.
Ids == {IDFromClusterAndContext(<<"x">>, <<"a">>),
        IDFromClusterAndContext(<<"y">>, <<"b">>)}

Paths ==
  {StoreEntry(n) : n \in Names}
    \cup {ActivePathForID(Sprint(p)) : p \in Ppids}
    \cup {LatestKonfFile}

Lookup(f, path) == IF path \in DOMAIN f THEN f[path] ELSE NoFile

\* afero.ReadFile
ReadFile(f, path) ==
  LET e == Lookup(f, path)
  IN  IF e.t = "file" THEN [err |-> "nil", data |-> e.data]
      ELSE IF e.t = "dir" THEN [err |-> "EISDIR", data |-> <<>>]
      ELSE [err |-> "ErrNotExist", data |-> <<>>]

\* A WriteFile that opens with O_APPEND instead of O_TRUNC.
WriteFileAppend(f, path, data, refused) ==
  IF refused THEN [err |-> "EACCES", fs |-> f]
  ELSE [err |-> "nil",
        fs |-> [f EXCEPT ![path] =
                  File((IF f[path].t = "file" THEN f[path].data ELSE <<>>) \o data)]]

\* afero.WriteFile (O_WRONLY|O_CREATE|O_TRUNC): the file holds exactly data
\* afterwards, or the open is refused and the file is as it was.
WriteFile(f, path, data, refused) ==
  IF refused THEN [err |-> "EACCES", fs |-> f]
  ELSE [err |-> "nil", fs |-> [f EXCEPT ![path] = File(data)]]

---------------------------------------------------------------------------
(* fetchKonfs *)

\* fs.FileInfo of a path that exists
Lstat(f, path) == [name |-> path.base, isDir |-> (f[path].t = "dir")]

RootInfo == [name |-> StoreDir.base, isDir |-> TRUE]

\* The names in the store directory, in lexical order (afero.Walk reads a
\* directory's names sorted).
RECURSIVE SortNames(_)
SortNames(S) ==
  IF S = {} THEN <<>>
  ELSE LET m == CHOOSE x \in S : \A y \in S \ {x} : StrLess(x, y)
       IN  <<m>> \o SortNames(S \ {m})

readDirNames(f) == SortNames({n \in Names : f[StoreEntry(n)] # NoFile})

\* The walk function: konfs after visiting path.
walkFn(konfs, path, info) ==
  IF info.isDir /\ path # StoreDir THEN konfs
  ELSE IF HasPrefix(info.name, <<".">>) THEN konfs
  ELSE Append(konfs, info)

RECURSIVE walkNames(_, _, _)
walkNames(f, names, konfs) ==
  IF names = <<>> THEN konfs
  ELSE LET path == StoreEntry(Head(names))
       IN  walkNames(f, Tail(names), walkFn(konfs, path, Lstat(f, path)))

\* afero.Walk(f, config.StoreDir(), walkFn): the root, then its entries.
Walk(f) == walkNames(f, readDirNames(f), walkFn(<<>>, StoreDir, RootInfo))

\* sort.Slice(konfs, func(i, j) { konfs[i].Name() < konfs[j].Name() })
RECURSIVE InsertSorted(_, _)
InsertSorted(sorted, info) ==
  IF sorted = <<>> THEN <<info>>
  ELSE IF StrLess(info.name, Head(sorted).name) THEN <<info>> \o sorted
  ELSE <<Head(sorted)>> \o InsertSorted(Tail(sorted), info)

RECURSIVE SortSlice(_)
SortSlice(konfs) ==
  IF konfs = <<>> THEN <<>>
  ELSE InsertSorted(SortSlice(Tail(konfs)), Head(konfs))

Returned(konfs, err, path) ==
  [panic |-> FALSE, konfs |-> konfs, err |-> err, path |-> path]

\* A run-time panic: the call returns nothing.
Panicked == [panic |-> TRUE, konfs |-> <<>>, err |-> "panic", path |-> NoPath]

\* The loop over the sorted file infos (set.go:233-263).
RECURSIVE indexLoop(_, _, _)
indexLoop(f, konfs, out) ==
  IF konfs = <<>> THEN Returned(out, "nil", NoPath)
  ELSE
    LET konf == Head(konfs)
        id   == IDFromFileInfo(konf)
        path == StorePathForID(id)
        file == ReadFile(f, path)
        kubeconf == Unmarshal(file.data)
    IN  IF file.err # "nil" THEN Returned(<<>>, file.err, NoPath)
        ELSE IF kubeconf.err THEN indexLoop(f, Tail(konfs), out)
        ELSE IF Len(kubeconf.Contexts) > 1 \/ Len(kubeconf.Clusters) > 1
          THEN Returned(<<>>, "KubeConfigOverload", path)
        ELSE IF Len(kubeconf.Contexts) = 0 \/ Len(kubeconf.Clusters) = 0
          THEN Panicked
        ELSE indexLoop(f, Tail(konfs),
                       Append(out, [Context |-> LineName(kubeconf.Contexts[1]),
                                    Cluster |-> LineName(kubeconf.Clusters[1]),
                                    File    |-> path]))

fetchKonfs(f) ==
  LET konfs == SortSlice(Tail(Walk(f)))
  IN  IF Len(konfs) = 0 THEN Returned(<<>>, "EmptyStore", NoPath)
      ELSE indexLoop(f, konfs, <<>>)

---------------------------------------------------------------------------
(* completeSet, selectContext, selectLastKonf, setContext, saveLatestKonf *)

RECURSIVE suggestions(_)
suggestions(konfs) ==
  IF konfs = <<>> THEN <<>>
  ELSE <<IDFromClusterAndContext(Head(konfs).Cluster, Head(konfs).Context)>>
         \o suggestions(Tail(konfs))

\* A completeSet that keeps only the suggestions toComplete is a prefix of.
completeSetFiltered(f, toComplete) ==
  LET r == fetchKonfs(f)
      keep(id) == HasPrefix(id, toComplete)
  IN  IF r.panic THEN [panic |-> TRUE, sug |-> <<>>, directive |-> "none"]
      ELSE IF r.err = "EmptyStore"
        THEN [panic |-> FALSE, sug |-> <<>>, directive |-> "NoFileComp"]
      ELSE IF r.err # "nil"
        THEN [panic |-> FALSE, sug |-> <<>>, directive |-> "Error"]
      ELSE [panic |-> FALSE, sug |-> SelectSeq(suggestions(r.konfs), keep),
            directive |-> "NoFileComp"]

\* completeSet(cmd, args, toComplete): the suggestions and the directive.
completeSet(f, toComplete) ==
  LET r == fetchKonfs(f)
  IN  IF r.panic THEN [panic |-> TRUE, sug |-> <<>>, directive |-> "none"]
      ELSE IF r.err = "EmptyStore"
        THEN [panic |-> FALSE, sug |-> <<>>, directive |-> "NoFileComp"]
      ELSE IF r.err # "nil"
        THEN [panic |-> FALSE, sug |-> <<>>, directive |-> "Error"]
      ELSE [panic |-> FALSE, sug |-> suggestions(r.konfs), directive |-> "NoFileComp"]

\* What a promptFunc may return: an index and an error (nil or not).
PromptResults ==
  [idx : (-1)..MaxFiles, err : {"nil"}] \cup {[idx |-> 1, err |-> "prompt failed"]}

Selected(id, err, idx) == [panic |-> FALSE, id |-> id, err |-> err, idx |-> idx]

\* selectContext(f, pf), pf returning (pf.idx, pf.err). A slice index out of
\* range panics.
selectContext(f, pf) ==
  LET k == fetchKonfs(f)
  IN  IF k.panic THEN [panic |-> TRUE, id |-> <<>>, err |-> "panic", idx |-> 0]
      ELSE IF k.err # "nil" THEN Selected(<<>>, k.err, 0)
      ELSE IF pf.err # "nil" THEN Selected(<<>>, pf.err, 0)
      ELSE IF pf.idx >= Len(k.konfs) THEN Selected(<<>>, "invalid selection", pf.idx)
      ELSE IF pf.idx < 0 THEN [panic |-> TRUE, id |-> <<>>, err |-> "panic", idx |-> 0]
      ELSE LET sel == k.konfs[pf.idx + 1]
           IN  Selected(IDFromClusterAndContext(sel.Cluster, sel.Context), "nil", 0)

\* A selectLastKonf that takes a missing latest record for an empty one.
selectLastKonfLenient(f) ==
  LET b == ReadFile(f, LatestKonfFile)
  IN  IF b.err # "nil" /\ b.err # "ErrNotExist"
      THEN [id |-> <<>>, err |-> b.err]
      ELSE [id |-> b.data, err |-> "nil"]

\* selectLastKonf(f)
selectLastKonf(f) ==
  LET b == ReadFile(f, LatestKonfFile)
  IN  IF b.err # "nil"
      THEN IF b.err = "ErrNotExist"
           THEN [id |-> <<>>, err |-> "no konf was yet set"]
           ELSE [id |-> <<>>, err |-> b.err]
      ELSE [id |-> b.data, err |-> "nil"]

\* A setContext that keys the active konf by one fixed id, not by the parent
\* process id of the caller.
setContextShared(id, f, ppid, refused) ==
  LET konf == ReadFile(f, StorePathForID(id))
      activeKonf == ActivePathForID(Sprint(CHOOSE p \in Ppids : TRUE))
      w == WriteFile(f, activeKonf, konf.data, refused)
  IN  IF konf.err # "nil" THEN [path |-> NoPath, err |-> konf.err, fs |-> f]
      ELSE IF w.err # "nil" THEN [path |-> NoPath, err |-> w.err, fs |-> w.fs]
      ELSE [path |-> activeKonf, err |-> "nil", fs |-> w.fs]

\* A setContext that creates the active konf before it reads the store file.
setContextEager(id, f, ppid, refused) ==
  LET konf == ReadFile(f, StorePathForID(id))
      activeKonf == ActivePathForID(Sprint(ppid))
      w == WriteFile(f, activeKonf, konf.data, refused)
  IN  IF konf.err # "nil" THEN [path |-> NoPath, err |-> konf.err, fs |-> w.fs]
      ELSE IF w.err # "nil" THEN [path |-> NoPath, err |-> w.err, fs |-> w.fs]
      ELSE [path |-> activeKonf, err |-> "nil", fs |-> w.fs]

\* setContext(id, f) in the session of parent process ppid; refused: the
\* write of the active konf is refused.
setContext(id, f, ppid, refused) ==
  LET konf == ReadFile(f, StorePathForID(id))
      activeKonf == ActivePathForID(Sprint(ppid))
      w == WriteFile(f, activeKonf, konf.data, refused)
  IN  IF konf.err # "nil" THEN [path |-> NoPath, err |-> konf.err, fs |-> f]
      ELSE IF w.err # "nil" THEN [path |-> NoPath, err |-> w.err, fs |-> w.fs]
      ELSE [path |-> activeKonf, err |-> "nil", fs |-> w.fs]

\* A saveLatestKonf that ends the record with a line break.
saveLatestKonfLine(f, id, refused) ==
  WriteFile(f, LatestKonfFile, id \o <<"\n">>, refused)

\* saveLatestKonf(f, id); refused: the write of the latest record is refused.
saveLatestKonf(f, id, refused) == WriteFile(f, LatestKonfFile, id, refused)

---------------------------------------------------------------------------
(* set *)

\* Nothing written to the standard output.
NoOutput == [line |-> "", path |-> NoPath]

\* The argument lists cobra.MaximumNArgs(1) lets through.
ArgLists == {<<>>, << <<"-">> >>} \cup {<<id>> : id \in Ids}

\* c.set(cmd, args) in the session of parent process ppid, the prompt
\* returning pf, the two writes refused or not: the error returned, the line
\* printed and the filesystem left behind.
set(f, ppid, args, pf, refusedActive, refusedLatest) ==
  LET sel == IF Len(args) = 0 THEN selectContext(f, pf)
             ELSE IF args[1] = <<"-">>
               THEN [panic |-> FALSE] @@ selectLastKonf(f)
             ELSE [panic |-> FALSE, id |-> args[1], err |-> "nil"]
      ctx == setContext(sel.id, f, ppid, refusedActive)
      sav == saveLatestKonf(ctx.fs, sel.id, refusedLatest)
  IN  IF sel.panic
        THEN [panic |-> TRUE, err |-> "panic", id |-> <<>>, path |-> NoPath,
              out |-> NoOutput, fs |-> f]
      ELSE IF sel.err # "nil"
        THEN [panic |-> FALSE, err |-> sel.err, id |-> <<>>, path |-> NoPath,
              out |-> NoOutput, fs |-> f]
      ELSE IF ctx.err # "nil"
        THEN [panic |-> FALSE, err |-> ctx.err, id |-> sel.id, path |-> NoPath,
              out |-> NoOutput, fs |-> ctx.fs]
      ELSE IF sav.err # "nil"
        THEN [panic |-> FALSE, err |-> "could not save latest konf", id |-> sel.id,
              path |-> ctx.path, out |-> NoOutput, fs |-> sav.fs]
      ELSE [panic |-> FALSE, err |-> "nil", id |-> sel.id, path |-> ctx.path,
            out |-> [line |-> "KUBECONFIGCHANGE:", path |-> ctx.path],
            fs |-> sav.fs]

---------------------------------------------------------------------------
(* searchKonf *)

\* The first position of rune r in target, 0 when there is none.
IndexRune(target, r) ==
  IF \E i \in 1..Len(target) : target[i] = r
  THEN CHOOSE i \in 1..Len(target) :
         target[i] = r /\ \A j \in 1..(i - 1) : target[j] # r
  ELSE 0

\* fuzzy.Match's loop: each rune of source is looked for in what is left of
\* target after the previous rune's match.
RECURSIVE matchRunes(_, _)
matchRunes(source, target) ==
  IF source = <<>> THEN TRUE
  ELSE LET i == IndexRune(target, Head(source))
       IN  IF i = 0 THEN FALSE
           ELSE matchRunes(Tail(source), SubSeq(target, i + 1, Len(target)))

\* fuzzy.Match(source, target)
FuzzyMatch(source, target) ==
  IF Len(target) - Len(source) < 0 THEN FALSE
  ELSE IF Len(target) = Len(source) /\ source = target THEN TRUE
  ELSE matchRunes(source, target)

\* A search surface whose fields are joined without the separating spaces.
SurfaceJoined(curItem) == curItem.Context \o curItem.Cluster \o curItem.File

\* fmt.Sprintf("%s %s %s", curItem.Context, curItem.Cluster, curItem.File)
Surface(curItem) ==
  curItem.Context \o <<" ">> \o curItem.Cluster \o <<" ">> \o curItem.File

searchKonf(searchTerm, curItem) == FuzzyMatch(searchTerm, Surface(curItem))

---------------------------------------------------------------------------
(* Initial states *)

\* What an entry of the store directory may be.
StoreContents == {NoFile, Dir} \cup {File(d) : d \in Docs}

\* The store directories: at most MaxFiles entries, of any kind.
Stores ==
  {s \in [Names -> StoreContents] :
     Cardinality({n \in Names : s[n] # NoFile}) <= MaxFiles}

\* A filesystem with store directory s, no active konf and no latest record.
FreshFs(s) ==
  [p \in Paths |-> IF p.dir = StoreEntry(<<>>).dir THEN s[p.base] ELSE NoFile]

\* The store directories without hidden entries: what activation and the
\* command are run on (a hidden entry is never opened by them).
PlainStores == {s \in Stores : s[NameHidden] = NoFile}

NoCall == [op |-> "none"]
NoItem == [Context |-> <<>>, Cluster |-> <<>>, File |-> <<>>]

Idle ==
  /\ last = NoCall
  /\ recorded = None
  /\ lastSet = None
  /\ query = <<>>
  /\ item = NoItem
  /\ found = "unset"

InitIndex == fs \in {FreshFs(s) : s \in Stores} /\ Idle

Init == fs \in {FreshFs(s) : s \in PlainStores} /\ Idle

---------------------------------------------------------------------------
(* Indexing: calls that only read the store *)

FetchKonfs ==
  /\ last' = [op |-> "fetchKonfs", res |-> fetchKonfs(fs)]
  /\ UNCHANGED <<fs, recorded, lastSet, query, item, found>>

SelectContext ==
  \E pf \in PromptResults :
    /\ last' = [op |-> "selectContext", pf |-> pf, res |-> selectContext(fs, pf)]
    /\ UNCHANGED <<fs, recorded, lastSet, query, item, found>>

\* What the shell may ask to complete.
Partials == {<<>>, <<"a">>, <<"b", "_">>}

CompleteSet ==
  \E toComplete \in Partials :
    /\ last' = [op |-> "completeSet", toComplete |-> toComplete,
                res |-> completeSet(fs, toComplete)]
    /\ UNCHANGED <<fs, recorded, lastSet, query, item, found>>

NextIndex ==
  \/ FetchKonfs
  \/ SelectContext
  \/ CompleteSet

SpecIndex == InitIndex /\ [][NextIndex]_vars

---------------------------------------------------------------------------
(* Activation and the latest record: calls of the functions on their own *)

SelectLastKonf ==
  /\ last' = [op |-> "selectLastKonf", res |-> selectLastKonf(fs)]
  /\ UNCHANGED <<fs, recorded, lastSet, query, item, found>>

SetContext ==
  \E id \in Ids, ppid \in Ppids, refused \in BOOLEAN :
    \E r \in {setContext(id, fs, ppid, refused)} :
      /\ fs' = r.fs
      /\ last' = [op |-> "setContext", id |-> id, ppid |-> ppid,
                  before |-> fs[ActivePathForID(Sprint(ppid))],
                  path |-> r.path, err |-> r.err]
      /\ UNCHANGED <<recorded, lastSet, query, item, found>>

SaveLatestKonf ==
  \E id \in Ids, refused \in BOOLEAN :
    \E r \in {saveLatestKonf(fs, id, refused)} :
      /\ fs' = r.fs
      /\ last' = [op |-> "saveLatestKonf", id |-> id, err |-> r.err]
      /\ recorded' = IF r.err = "nil" THEN id ELSE recorded
      /\ UNCHANGED <<lastSet, query, item, found>>

NextUnit ==
  \/ SelectLastKonf
  \/ SetContext
  \/ SaveLatestKonf

SpecUnit == Init /\ [][NextUnit]_vars

---------------------------------------------------------------------------
(* The command: `konf set` and its completion *)

\* Which write the filesystem refuses during one run of the command.
Refusals == {"none", "active", "latest"}

Set ==
  \E ppid \in Ppids, args \in ArgLists, refusal \in Refusals :
    \E pf \in IF Len(args) = 0 THEN PromptResults ELSE {[idx |-> 0, err |-> "nil"]} :
      \E r \in {set(fs, ppid, args, pf, refusal = "active", refusal = "latest")} :
        /\ fs' = r.fs
        /\ last' = [op |-> "set", ppid |-> ppid, args |-> args,
                    panic |-> r.panic, err |-> r.err, id |-> r.id,
                    path |-> r.path, out |-> r.out]
        /\ recorded' = IF r.err = "nil" THEN r.id ELSE recorded
        /\ lastSet' = IF r.err = "nil" THEN r.id ELSE lastSet
        /\ UNCHANGED <<query, item, found>>

Next ==
  \/ Set
  \/ CompleteSet

Spec == Init /\ [][Next]_vars

---------------------------------------------------------------------------
(* Shell sessions: the command, its completion and the recall of the latest *)

NextSessions ==
  \/ Set
  \/ CompleteSet
  \/ SelectLastKonf

SpecSessions == Init /\ [][NextSessions]_vars

---------------------------------------------------------------------------
(* searchKonf on its own *)

Runes == {"a", "b", "c", " "}

RECURSIVE StringsUpTo(_, _)
StringsUpTo(alphabet, n) ==
  IF n = 0 THEN {<<>>}
  ELSE LET shorter == StringsUpTo(alphabet, n - 1)
       IN  shorter \cup {Append(w, r) : w \in shorter, r \in alphabet}

Fields == {<<>>, <<"a">>, <<"b">>, <<"a", "b">>}

InitSearch ==
  /\ fs = FreshFs([n \in Names |-> NoFile])
  /\ last = NoCall
  /\ recorded = None
  /\ lastSet = None
  /\ query \in StringsUpTo(Runes, MaxQuery)
  /\ item \in [Context : Fields, Cluster : Fields, File : Fields]
  /\ found = "unset"

SearchKonf ==
  /\ found' = IF searchKonf(query, item) THEN "true" ELSE "false"
  /\ UNCHANGED <<fs, last, recorded, lastSet, query, item>>

NextSearch == SearchKonf

SpecSearch == InitSearch /\ [][NextSearch]_vars

---------------------------------------------------------------------------
(* What the claims speak of, read off the filesystem *)

\* The store directory's entries that are regular files with a visible name.
VisibleFiles(f) ==
  {n \in Names : f[StoreEntry(n)].t = "file" /\ n[1] # "."}

Bytes(f, n) == f[StoreEntry(n)].data

ContextLines(d) == {i \in 1..Len(d) : IsContextLine(d[i])}
ClusterLines(d) == {i \in 1..Len(d) : IsClusterLine(d[i])}

\* The document is no configuration document at all.
Malformed(d) == ContextLines(d) \cup ClusterLines(d) # 1..Len(d)

\* More than one cluster or more than one context.
Overloaded(d) ==
  /\ ~Malformed(d)
  /\ (Cardinality(ContextLines(d)) > 1 \/ Cardinality(ClusterLines(d)) > 1)

\* Exactly one cluster and exactly one context.
Valid(d) ==
  /\ ~Malformed(d)
  /\ Cardinality(ContextLines(d)) = 1
  /\ Cardinality(ClusterLines(d)) = 1

ValidFiles(f) == {n \in VisibleFiles(f) : Valid(Bytes(f, n))}

\* The entry a valid file is indexed as.
EntryOf(f, n) ==
  LET d == Bytes(f, n)
  IN  [Context |-> LineName(d[CHOOSE i \in ContextLines(d) : TRUE]),
       Cluster |-> LineName(d[CHOOSE i \in ClusterLines(d) : TRUE]),
       File    |-> StoreEntry(n)]

\* The place of a valid file among the valid files, by ascending name.
Rank(f, n) == 1 + Cardinality({m \in ValidFiles(f) : StrLess(m, n)})

\* konfs is one entry per valid file, in ascending file-name order.
IndexOfValidFiles(f, konfs) ==
  /\ Len(konfs) = Cardinality(ValidFiles(f))
  /\ \A n \in ValidFiles(f) : konfs[Rank(f, n)] = EntryOf(f, n)

ActiveKonf(ppid) == ActivePathForID(Sprint(ppid))

---------------------------------------------------------------------------
(* Claims *)

\* C1: after setContext(id) returns nil, the file at the active-konf path of
\* the caller's parent process id holds exactly the bytes of the store file
\* <store>/<id>.yaml, whatever it held before, and that path is returned.
C1_ActivationIsCopy ==
  (last.op = "setContext" /\ last.err = "nil") =>
    LET konf == fs[StoreEntry(last.id \o YamlExt)]
    IN  /\ konf.t = "file"
        /\ fs[ActiveKonf(last.ppid)] = File(konf.data)
        /\ last.path = ActiveKonf(last.ppid)

\* C1's case: an activation that replaced other, non-empty content.
C1_Witness ==
  /\ last.op = "setContext"
  /\ last.err = "nil"
  /\ last.before.t = "file"
  /\ last.before.data # <<>>
  /\ last.before # fs[ActiveKonf(last.ppid)]

\* C2: whenever the store holds a (visible, regular) file with more than one
\* cluster or context, fetchKonfs returns no entries and a KubeConfigOverload
\* error carrying the path of such a file, whatever else the store holds.
C2_ImpureStoreIsRefused ==
  (/\ last.op = "fetchKonfs"
   /\ \E n \in VisibleFiles(fs) : Overloaded(Bytes(fs, n)))
  => /\ ~last.res.panic
     /\ last.res.konfs = <<>>
     /\ last.res.err = "KubeConfigOverload"
     /\ \E n \in VisibleFiles(fs) :
          Overloaded(Bytes(fs, n)) /\ last.res.path = StoreEntry(n)

\* C3: for a store whose entries are all malformed files, or all hidden files,
\* or all sub-directories, fetchKonfs returns the EmptyStore error.
C3_NothingUsableIsEmptyStore ==
  LET entries == {n \in Names : fs[StoreEntry(n)] # NoFile}
  IN  (/\ last.op = "fetchKonfs"
       /\ \/ \A n \in entries :
               fs[StoreEntry(n)].t = "file" /\ Malformed(Bytes(fs, n))
          \/ \A n \in entries : fs[StoreEntry(n)].t = "file" /\ n[1] = "."
          \/ \A n \in entries : fs[StoreEntry(n)].t = "dir")
      => (~last.res.panic /\ last.res.err = "EmptyStore")

\* C4: for a store whose visible regular files are free of files with more
\* than one cluster or context, fetchKonfs returns one entry per valid file,
\* in ascending file-name order, malformed files being skipped; so with only
\* valid files there are as many entries as files.
C4_OneEntryPerValidFile ==
  (/\ last.op = "fetchKonfs"
   /\ \A n \in VisibleFiles(fs) : ~Overloaded(Bytes(fs, n)))
  => /\ ~last.res.panic
     /\ IndexOfValidFiles(fs, last.res.konfs)
     /\ (ValidFiles(fs) = VisibleFiles(fs)
           => Len(last.res.konfs) = Cardinality(VisibleFiles(fs)))

\* C5: selectLastKonf returns the identifier of the latest saveLatestKonf that
\* returned nil; with no record it returns the empty identifier and the error
\* 'no konf was yet set'.
C5_RecallReturnsRecorded ==
  last.op = "selectLastKonf" =>
    IF recorded = None
    THEN last.res = [id |-> <<>>, err |-> "no konf was yet set"]
    ELSE last.res = [id |-> recorded, err |-> "nil"]

\* C5's case: a recall that follows a record and returns its identifier.
C5_Witness ==
  /\ last.op = "selectLastKonf"
  /\ recorded \in Ids
  /\ last.res.id = recorded
  /\ last.res.err = "nil"

\* C6: a `set -` that follows a successful set in the same session either
\* is refused a write or repeats it: the same identifier, the same bytes at
\* the same active-konf path, the same KUBECONFIGCHANGE line, the latest
\* record still that identifier; and after every set the latest record holds
\* the identifier of the most recent set that returned nil.
C6_RepeatLast ==
  [][ /\ (/\ last.op = "set" /\ last.err = "nil"
          /\ last'.op = "set" /\ last'.args = << <<"-">> >>
          /\ last'.ppid = last.ppid)
         => /\ ~last'.panic
            /\ last'.err \in {"nil", "EACCES", "could not save latest konf"}
            /\ last'.err = "nil" =>
                 /\ last'.id = last.id
                 /\ last'.path = last.path
                 /\ last'.out = last.out
                 /\ fs'[ActiveKonf(last.ppid)] = fs[ActiveKonf(last.ppid)]
                 /\ fs'[LatestKonfFile] = File(last.id)
      /\ (last'.op = "set" /\ lastSet' # None)
           => fs'[LatestKonfFile] = File(lastSet')
    ]_vars

\* C6's case: a `set -` that returned nil in a session whose active konf it
\* wrote, while the other session holds another konf.
C6_Witness ==
  /\ last.op = "set"
  /\ last.args = << <<"-">> >>
  /\ last.err = "nil"
  /\ last.out.line = "KUBECONFIGCHANGE:"
  /\ \E ppid \in Ppids :
       fs[ActiveKonf(ppid)] \notin {NoFile, fs[ActiveKonf(last.ppid)]}

\* C7: completeSet returns, whatever it is asked to complete, the identifier
\* of every valid store file in ascending file-name order and the
\* no-file-completion directive when fetchKonfs returns entries; no
\* suggestion and the same directive when fetchKonfs returns EmptyStore; and
\* the error directive when fetchKonfs returns any other error.
C7_CompletionListsAll ==
  last.op = "completeSet" =>
    LET k == fetchKonfs(fs)
        r == last.res
    IN  /\ (~k.panic /\ k.err = "nil") =>
             /\ ~r.panic
             /\ r.directive = "NoFileComp"
             /\ Len(r.sug) = Cardinality(ValidFiles(fs))
             /\ \A n \in ValidFiles(fs) :
                  r.sug[Rank(fs, n)] =
                    EntryOf(fs, n).Context \o <<"_">> \o EntryOf(fs, n).Cluster
        /\ (~k.panic /\ k.err = "EmptyStore") =>
             r = [panic |-> FALSE, sug |-> <<>>, directive |-> "NoFileComp"]
        /\ (~k.panic /\ k.err \notin {"nil", "EmptyStore"}) =>
             (~r.panic /\ r.directive = "Error")

\* C7's case: a completion that returns two identifiers, only the second of
\* which starts with the partial input.
C7_Witness ==
  /\ last.op = "completeSet"
  /\ Len(last.res.sug) = 2
  /\ last.toComplete # <<>>
  /\ ~HasPrefix(last.res.sug[1], last.toComplete)
  /\ HasPrefix(last.res.sug[2], last.toComplete)

\* C8: when fetchKonfs returns entries, selectContext propagates the prompt's
\* error; else returns the identifier of the entry at the prompt's index if
\* that index is within [0, len); else fails with the invalid-selection error
\* naming the index, and returns the empty identifier.
C8_SelectionIsValidated ==
  LET k == fetchKonfs(fs)
      pf == last.pf
      r == last.res
  IN  (last.op = "selectContext" /\ ~k.panic /\ k.err = "nil") =>
        IF pf.err # "nil" THEN ~r.panic /\ r.err = pf.err /\ r.id = <<>>
        ELSE IF 0 <= pf.idx /\ pf.idx < Len(k.konfs)
          THEN /\ ~r.panic
               /\ r.err = "nil"
               /\ r.id = k.konfs[pf.idx + 1].Context \o <<"_">>
                           \o k.konfs[pf.idx + 1].Cluster
        ELSE /\ ~r.panic
             /\ r.err = "invalid selection"
             /\ r.idx = pf.idx
             /\ r.id = <<>>

\* C9: once set has activated a konf, it prints the KUBECONFIGCHANGE line for
\* the path written, which holds the konf's bytes, whether or not the latest
\* record could then be written.
C9_LatestFailureIsNotFatal ==
  (last.op = "set" /\ last.path # NoPath) =>
    /\ last.path = ActiveKonf(last.ppid)
    /\ fs[last.path] = fs[StoreEntry(last.id \o YamlExt)]
    /\ last.out = [line |-> "KUBECONFIGCHANGE:", path |-> last.path]

\* q is an in-order subsequence of surface: its first character stands
\* somewhere in surface and the rest is a subsequence of what follows.
RECURSIVE IsSubsequence(_, _)
IsSubsequence(q, surface) ==
  \/ q = <<>>
  \/ \E i \in 1..Len(surface) :
       /\ surface[i] = q[1]
       /\ IsSubsequence(Tail(q), SubSeq(surface, i + 1, Len(surface)))

\* C10: searchKonf returns true for every search term that is an in-order
\* subsequence of "<Context> <Cluster> <File>" and false for every search
\* term with a character that is nowhere in it.
C10_SearchMatchesSubsequences ==
  found # "unset" =>
    LET surface == item.Context \o <<" ">> \o item.Cluster \o <<" ">> \o item.File
    IN  /\ IsSubsequence(query, surface) => found = "true"
        /\ (\E i \in 1..Len(query) :
              \A j \in 1..Len(surface) : surface[j] # query[i]) => found = "false"

\* C10's case: a match of a search term that spans the separators between
\* the fields and is found in no field alone.
C10_Witness ==
  /\ found = "true"
  /\ \E i \in 1..Len(query) : query[i] = " "
  /\ query[1] # " "
  /\ query[Len(query)] # " "
  /\ Len(item.Context) = 2

\* The errors set returns before it writes anything: from the prompt, from
\* indexing, from the selection, from the recall, from reading the store file.
EarlyErrors ==
  {"prompt failed", "EmptyStore", "KubeConfigOverload", "invalid selection",
   "no konf was yet set", "ErrNotExist", "EISDIR"}

\* C11: a set that fails before the activation write (prompt error, EmptyStore,
\* KubeConfigOverload, invalid selection, nothing set yet on `set -`, no store
\* file for the identifier) leaves the session's active konf and the latest
\* record (indeed every file) as they were and prints no KUBECONFIGCHANGE line.
C11_EarlyFailureWritesNothing ==
  [][ (last'.op = "set" /\ ~last'.panic /\ last'.err \in EarlyErrors)
        => /\ fs'[ActiveKonf(last'.ppid)] = fs[ActiveKonf(last'.ppid)]
           /\ fs'[LatestKonfFile] = fs[LatestKonfFile]
           /\ fs' = fs
           /\ last'.out = NoOutput
    ]_vars

\* C11's case: a set for an identifier without store file, in a session that
\* has an active konf, after a latest record was written.
C11_Witness ==
  /\ last.op = "set"
  /\ last.err = "ErrNotExist"
  /\ Len(last.args) = 1
  /\ fs[ActiveKonf(last.ppid)].t = "file"
  /\ fs[ActiveKonf(last.ppid)].data # <<>>
  /\ fs[LatestKonfFile].t = "file"

\* C12: fetchKonfs always ends in a list of entries or an error value, also
\* when a parseable file defines no context or no cluster, and every entry it
\* returns has a non-empty Context and a non-empty Cluster, taken from a
\* visible file that defines exactly one context and exactly one cluster.
C12_EntriesAreWellFormed ==
  last.op = "fetchKonfs" =>
    /\ ~last.res.panic
    /\ \A i \in 1..Len(last.res.konfs) :
         /\ last.res.konfs[i].Context # <<>>
         /\ last.res.konfs[i].Cluster # <<>>
         /\ \E n \in ValidFiles(fs) : last.res.konfs[i] = EntryOf(fs, n)

\* C13: over any sequence of set, completion and recall from the sessions, no
\* entry of the store directory is created, changed or removed; completion
\* and recall write nothing; a set writes at most the active konf of its own
\* parent process id and the latest record, so every other session's active
\* konf stays as it was; and the latest record is one for all sessions: a
\* recall returns the identifier of the most recent set that returned nil,
\* and a `set -` that succeeds right after a set of another session
\* activates that set's identifier and bytes.
C13_OnlyOwnArtifactsWritten ==
  [][ /\ \A n \in Names : fs'[StoreEntry(n)] = fs[StoreEntry(n)]
      /\ last'.op # "set" => fs' = fs
      /\ last'.op = "set" =>
           \A p \in Paths :
             fs'[p] # fs[p] => p \in {ActiveKonf(last'.ppid), LatestKonfFile}
      /\ (last'.op = "selectLastKonf" /\ lastSet # None) =>
           last'.res = [id |-> lastSet, err |-> "nil"]
      /\ (/\ last.op = "set" /\ last.err = "nil"
          /\ last'.op = "set" /\ last'.args = << <<"-">> >>
          /\ last'.ppid # last.ppid /\ last'.err = "nil")
         => /\ last'.id = last.id
            /\ fs'[ActiveKonf(last'.ppid)] = fs[ActiveKonf(last.ppid)]
    ]_vars

\* C13's case: a set by identifier has written its session's active konf and
\* the latest record while another session holds a different active konf.
C13_Witness ==
  /\ last.op = "set"
  /\ last.err = "nil"
  /\ Len(last.args) = 1
  /\ last.args[1] \in Ids
  /\ fs[LatestKonfFile] = File(last.id)
  /\ \E q \in Ppids \ {last.ppid} :
       /\ fs[ActiveKonf(q)].t = "file"
       /\ fs[ActiveKonf(q)] # fs[ActiveKonf(last.ppid)]

====
